---------------------------- MODULE Spec2Model ----------------------------
(***************************************************************************)
(* Model of src/run.py: the batch video converter.                         *)
(*                                                                         *)
(*   Spec        one run of main(): dependency probe, scan, the batch loop *)
(*               of VideoConverter.convert_all driving convert_video with  *)
(*               one encoder child per file, the progress tracker, the     *)
(*               final summary and the process exit status.  The user may  *)
(*               interrupt the run once, at any program position.          *)
(*   FairSpec    Spec with convert_video's own steps weakly fair.          *)
(*   ParserSpec  FFmpegProgressParser fed arbitrary sequences of lines.    *)
(*   TrackerSpec EnhancedProgressTracker under arbitrary sequences of      *)
(*               start_file, update_file_progress and complete_file calls. *)
(*   PathSpec    get_output_path applied to a discovered file.             *)
(*   RerunSpec   repeated runs over one source directory, default options. *)
(*                                                                         *)
(* Times are whole time units and the percentage is computed exactly; the  *)
(* rounding of Python floats is not modelled.  Writes to the terminal are  *)
(* taken to succeed.                                                       *)
(***************************************************************************)
EXTENDS Integers, Sequences, FiniteSets, TLC

VARIABLES
    pc,             \* position of the main thread
    skip_existing,  \* VideoConverter.skip_existing
    total,          \* len(video_files): the files found by the scan, 1..total in sorted order
    i,              \* loop variable of the batch loop (1-based)
    tracker,        \* EnhancedProgressTracker
    stats,          \* the stats dict of convert_all, with failed_files
    parser,         \* FFmpegProgressParser of the current conversion
    loc,            \* locals of convert_video: last_update, last_percent
    result,         \* (success, result_type) returned by convert_video
    child,          \* encoder child process started for each file
    target,         \* the output file of each input file, on disk
    pipe,           \* lines written by the current child to stderr and not yet read
    unlink,         \* outcome of output_path.unlink() in the current iteration
    interruptedAt,  \* where a KeyboardInterrupt was delivered, "none" if none was
    reported,       \* the number printed as "Processed: n/total" on interruption
    summaryDone,    \* the final summary has been printed
    exitCode,       \* termination status of the process
    attempts,       \* the files the batch loop has taken up, in order
    error,          \* the 'error' convert_all returned or main printed, "none" if none
    ops,            \* the kinds of file operation the run has performed
    shown,          \* the processed count on the status header as last drawn
    observed,       \* ParserSpec: the lines fed to the parser so far
    now,            \* TrackerSpec: the clock time.time() reads
    history,        \* TrackerSpec: per complete_file call, the time elapsed since
                    \* the latest start_file, None if there was none
    infile,         \* PathSpec: the discovered input file
    outfile,        \* PathSpec: the output path computed for it, NoPath before
    tree,           \* RerunSpec: the video files below the source directory
    sweep           \* RerunSpec: the run in progress: its number, the discovered
                    \* files not yet handled, the files an encoder was spawned
                    \* for, whether a file failed, whether the run before was clean

\* the variables of the specifications of single components
sideVars == <<observed, now, history, infile, outfile, tree, sweep>>

\* the variables of a run that a single component never touches
runFrame == <<skip_existing, total, i, stats, loc, result, child, target, pipe, unlink,
              interruptedAt, reported, summaryDone, exitCode, attempts, error, ops, shown>>

vars == <<pc, skip_existing, total, i, tracker, stats, parser, loc, result, child,
          target, pipe, unlink, interruptedAt, reported, summaryDone, exitCode, attempts,
          error, ops, shown, sideVars>>

---------------------------------------------------------------------------
(* Bounds and input sets *)

MaxFiles == 2
PipeCap == 1
MaxLines == 3

\* Python's None, for the optional numbers of the program
None == -1

\* len(self.file_times) > 15
HistoryCap == 15

Files == 1..MaxFiles

\* time.time() - current_file_start, in whole time units
Durations == {1, 2}
\* st_size of an input file and of a finished output file
InSizes == {2}
OutSizes == {1, 3}

\* values of an HH:MM:SS.ss token, in time units
TimeVals == {0, 1, 2, 3}
OptTime == TimeVals \cup {None}

\* A line of encoder output as the parser sees it: the value of the first
\* "Duration: HH:MM:SS.ss" token and of the first "time=HH:MM:SS.ss" token,
\* None where the line carries no such token (or a malformed one).
AllLines == [dur : OptTime, pos : OptTime]
Line(d, p) == [dur |-> d, pos |-> p]
\* the lines the encoder child writes in a run
EncoderLines == {Line(2, None), Line(None, 1), Line(None, 3), Line(None, None)}

---------------------------------------------------------------------------
(* FFmpegProgressParser *)

NewParser == [duration_seconds |-> None, current_seconds |-> None]

parse_duration(p, line) ==
    IF line.dur # None THEN [p EXCEPT !.duration_seconds = line.dur] ELSE p

parse_progress(p, line) ==
    IF line.pos # None THEN [p EXCEPT !.current_seconds = line.pos] ELSE p

\* truth value of an optional number in a Python condition
Truthy(x) == x # None /\ x # 0

Min(a, b) == IF a < b THEN a ELSE b

get_progress_percent(p) ==
    IF Truthy(p.duration_seconds) /\ Truthy(p.current_seconds) /\ p.duration_seconds > 0
    THEN Min(100, (p.current_seconds * 100) \div p.duration_seconds)
    ELSE None

---------------------------------------------------------------------------
(* EnhancedProgressTracker *)

NewTracker(n) ==
    [total_files |-> n, current_index |-> 0, completed_files |-> 0, failed_files |-> 0,
     skipped_files |-> 0, file_times |-> <<>>, current_file_start |-> None,
     total_input_size |-> 0, total_output_size |-> 0, current_file_progress |-> 0]

\* time: what time.time() returns
start_file(t, index, time) ==
    [t EXCEPT !.current_index = index, !.current_file_start = time,
              !.current_file_progress = 0]

\* update_file_progress that also counts the file as completed
update_file_progress_Counting(t, percent) ==
    [t EXCEPT !.current_file_progress = percent, !.completed_files = @ + 1]

update_file_progress(t, percent) == [t EXCEPT !.current_file_progress = percent]

\* file_times that refuses the new duration once it is full
AppendTime_DropNewest(times, d) ==
    IF Len(times) >= HistoryCap THEN times ELSE Append(times, d)

AppendTime(times, d) ==
    LET a == Append(times, d)
    IN  IF Len(a) > HistoryCap THEN Tail(a) ELSE a

\* complete_file with the skipped branch falling through to the success branch
complete_file_FallThrough(t, success, skipped, input_size, output_size, duration) ==
    LET t1 == IF t.current_file_start # None
              THEN [t EXCEPT !.file_times = AppendTime(t.file_times, duration)]
              ELSE t
        t2 == IF skipped THEN [t1 EXCEPT !.skipped_files = @ + 1] ELSE t1
        t3 == IF success
              THEN [t2 EXCEPT !.completed_files = @ + 1,
                              !.total_input_size = @ + input_size,
                              !.total_output_size = @ + output_size]
              ELSE IF skipped THEN t2 ELSE [t2 EXCEPT !.failed_files = @ + 1]
    IN  [t3 EXCEPT !.current_file_progress = 0]

\* complete_file that adds the sizes it is given whatever the outcome
complete_file_AddAlways(t, success, skipped, input_size, output_size, duration) ==
    LET t1 == IF t.current_file_start # None
              THEN [t EXCEPT !.file_times = AppendTime(t.file_times, duration)]
              ELSE t
        t2 == IF skipped THEN [t1 EXCEPT !.skipped_files = @ + 1]
              ELSE IF success
                   THEN [t1 EXCEPT !.completed_files = @ + 1]
                   ELSE [t1 EXCEPT !.failed_files = @ + 1]
    IN  [t2 EXCEPT !.current_file_progress = 0,
                   !.total_input_size = @ + input_size,
                   !.total_output_size = @ + output_size]

complete_file(t, success, skipped, input_size, output_size, duration) ==
    LET t1 == IF t.current_file_start # None
              THEN [t EXCEPT !.file_times = AppendTime(t.file_times, duration)]
              ELSE t
        t2 == IF skipped THEN [t1 EXCEPT !.skipped_files = @ + 1]
              ELSE IF success
                   THEN [t1 EXCEPT !.completed_files = @ + 1,
                                   !.total_input_size = @ + input_size,
                                   !.total_output_size = @ + output_size]
                   ELSE [t1 EXCEPT !.failed_files = @ + 1]
    IN  [t2 EXCEPT !.current_file_progress = 0]

get_processed_count(t) == t.completed_files + t.failed_files + t.skipped_files

RECURSIVE Sum(_)
Sum(seq) == IF seq = <<>> THEN 0 ELSE Head(seq) + Sum(Tail(seq))

\* the text of a nonnegative time of num/den seconds, as get_eta_formatted
\* prints it: "{a}s", "{a}m {b}s" or "{a}h {b}m"
FormatSeconds(num, den) ==
    IF num < 60 * den
    THEN [form |-> "s", a |-> num \div den, b |-> 0]
    ELSE IF num < 3600 * den
         THEN [form |-> "m s", a |-> num \div (60 * den), b |-> (num \div den) % 60]
         ELSE [form |-> "h m", a |-> num \div (3600 * den),
               b |-> ((num \div den) % 3600) \div 60]

\* get_eta_formatted without the adjustment for the current file's progress
get_eta_formatted_NoAdjust(t) ==
    IF t.file_times = <<>>
    THEN [kind |-> "calculating...", num |-> 0, den |-> 1, text |-> FormatSeconds(0, 1)]
    ELSE LET remaining == t.total_files - get_processed_count(t)
             num == remaining * 100 * Sum(t.file_times)
             den == 100 * Len(t.file_times)
         IN  IF remaining <= 0
             THEN [kind |-> "complete", num |-> 0, den |-> 1, text |-> FormatSeconds(0, 1)]
             ELSE [kind |-> "time", num |-> num, den |-> den,
                   text |-> FormatSeconds(num, den)]

\* get_eta_formatted: eta_seconds is kept as the exact fraction num/den,
\*   (remaining - 1 + (100 - current_file_progress) / 100) * sum / len
get_eta_formatted(t) ==
    IF t.file_times = <<>>
    THEN [kind |-> "calculating...", num |-> 0, den |-> 1, text |-> FormatSeconds(0, 1)]
    ELSE LET remaining == t.total_files - get_processed_count(t)
             num == ((remaining - 1) * 100 + (100 - t.current_file_progress))
                       * Sum(t.file_times)
             den == 100 * Len(t.file_times)
         IN  IF remaining <= 0
             THEN [kind |-> "complete", num |-> 0, den |-> 1, text |-> FormatSeconds(0, 1)]
             ELSE [kind |-> "time", num |-> num, den |-> den,
                   text |-> FormatSeconds(num, den)]

Abs(x) == IF x < 0 THEN -x ELSE x
\* a / b for b > 0, rounded to the nearest integer
RoundDiv(a, b) == (2 * a + b) \div (2 * b)

SizeUnits == <<"B", "KB", "MB", "GB", "TB">>

\* format_size of get_space_savings: the first unit in which the size is below
\* 1024, the size in tenths of that unit as "{:.1f}" prints it; scale is 1024
\* to the number of units already passed
RECURSIVE format_size_from(_, _, _)
format_size_from(size_bytes, n, scale) ==
    IF n > Len(SizeUnits)
    THEN [unit |-> "PB", tenths |-> RoundDiv(10 * size_bytes, scale)]
    ELSE IF size_bytes < 1024 * scale
         THEN [unit |-> SizeUnits[n], tenths |-> RoundDiv(10 * size_bytes, scale)]
         ELSE format_size_from(size_bytes, n + 1, 1024 * scale)

format_size(size_bytes) == format_size_from(size_bytes, 1, 1)

\* get_space_savings that prints the signed difference in both branches
get_space_savings_Signed(t) ==
    IF t.total_input_size = 0
    THEN [kind |-> "no data yet", size |-> None, tenths |-> None]
    ELSE LET savings_bytes == t.total_input_size - t.total_output_size
         IN  [kind |-> IF savings_bytes > 0 THEN "saved" ELSE "used",
              size |-> format_size(savings_bytes),
              tenths |-> RoundDiv(savings_bytes * 1000, t.total_input_size)]

\* get_space_savings: the word, the size printed after it and the percentage
\* "{:+.1f}" prints, in tenths of a percent
get_space_savings(t) ==
    IF t.total_input_size = 0
    THEN [kind |-> "no data yet", size |-> None, tenths |-> None]
    ELSE LET savings_bytes == t.total_input_size - t.total_output_size
         IN  [kind |-> IF savings_bytes > 0 THEN "saved" ELSE "used",
              size |-> IF savings_bytes > 0 THEN format_size(savings_bytes)
                                             ELSE format_size(-savings_bytes),
              tenths |-> RoundDiv(savings_bytes * 1000, t.total_input_size)]

---------------------------------------------------------------------------
(* The run: main() and VideoConverter.convert_all *)

NewStats(n) == [total |-> n, success |-> 0, failed |-> 0, skipped |-> 0, failed_files |-> <<>>]

NoResult == <<FALSE, "none">>
NewLocals == [last_update |-> 0, last_header_update |-> 0, last_percent |-> 0]

\* positions inside the try block of the batch loop
TryPcs == {"outpath", "startfile", "skipcheck", "spawn", "read", "exitcode",
           "complete", "stats", "header"}
\* positions of convert_all and main outside that try block
OuterPcs == {"probe", "srccheck", "scan", "loop", "handler", "summary"}

\* no input file, and no output path yet
NoFile == [dir |-> <<>>, name |-> <<>>]
NoPath == [root |-> "none", dir |-> <<>>, name |-> <<>>]

NoSweep == [run |-> 0, todo |-> {}, spawned |-> {}, failed |-> FALSE, clean |-> FALSE]

\* the variables of the component specifications, unused in a run
SideIdle ==
    /\ observed = <<>>
    /\ now = 0
    /\ history = <<>>
    /\ infile = NoFile
    /\ outfile = NoPath
    /\ tree = {}
    /\ sweep = NoSweep

Init ==
    /\ pc = "main"
    /\ skip_existing \in BOOLEAN
    /\ total \in 0..MaxFiles
    /\ i = 0
    /\ tracker = NewTracker(0)
    /\ stats = NewStats(0)
    /\ parser = NewParser
    /\ loc = NewLocals
    /\ result = NoResult
    /\ child = [k \in Files |-> "none"]
    /\ target \in [Files -> {"absent", "old"}]
    /\ \A k \in Files : k > total => target[k] = "absent"
    /\ pipe = <<>>
    /\ unlink = "none"
    /\ interruptedAt = "none"
    /\ reported = None
    /\ summaryDone = FALSE
    /\ exitCode = None
    /\ attempts = <<>>
    /\ error = "none"
    /\ ops = {}
    /\ shown = None
    /\ SideIdle

\* sys.exit(code), or falling off the end of main (code 0)
Exit(code) == pc' = "exited" /\ exitCode' = code

\* main: the source directory given on the command line must exist
MainStart ==
    /\ pc = "main"
    /\ \E exists \in BOOLEAN :
          IF exists
          THEN pc' = "probe" /\ UNCHANGED <<exitCode, error>>
          ELSE Exit(1) /\ error' = "Source directory not found (main)"
    /\ UNCHANGED <<skip_existing, total, i, tracker, stats, parser, loc, result, child,
                   target, pipe, unlink, interruptedAt, reported, summaryDone,
                   attempts, ops, shown, sideVars>>

\* check_dependencies whose failure is reported but does not end the run
CheckDependencies_Ignore ==
    /\ pc = "probe"
    /\ \E ok \in BOOLEAN :
          /\ pc' = "srccheck"
          /\ error' = IF ok THEN error ELSE "FFmpeg not available"
    /\ UNCHANGED <<skip_existing, total, i, tracker, stats, parser, loc, result, child,
                   target, pipe, unlink, interruptedAt, reported, summaryDone, exitCode,
                   attempts, ops, shown, sideVars>>

\* convert_all: check_dependencies(); on failure main exits on the 'error' key
CheckDependencies ==
    /\ pc = "probe"
    /\ \E ok \in BOOLEAN :
          IF ok
          THEN pc' = "srccheck" /\ UNCHANGED <<exitCode, error>>
          ELSE Exit(1) /\ error' = "FFmpeg not available"
    /\ UNCHANGED <<skip_existing, total, i, tracker, stats, parser, loc, result, child,
                   target, pipe, unlink, interruptedAt, reported, summaryDone,
                   attempts, ops, shown, sideVars>>

\* convert_all: self.source_dir.exists()
SourceCheck ==
    /\ pc = "srccheck"
    /\ \E exists \in BOOLEAN :
          IF exists
          THEN pc' = "scan" /\ UNCHANGED <<exitCode, error>>
          ELSE Exit(1) /\ error' = "Source directory not found"
    /\ UNCHANGED <<skip_existing, total, i, tracker, stats, parser, loc, result, child,
                   target, pipe, unlink, interruptedAt, reported, summaryDone,
                   attempts, ops, shown, sideVars>>

\* find_video_files; an empty result returns at once, otherwise the tracker
\* and the stats are created and the initial header is printed
Scan ==
    /\ pc = "scan"
    /\ ops' = ops \cup {"scan"}
    /\ IF total = 0
       THEN /\ Exit(0)
            /\ UNCHANGED <<tracker, stats, shown>>
       ELSE /\ pc' = "loop"
            /\ tracker' = NewTracker(total)
            /\ stats' = NewStats(total)
            /\ shown' = get_processed_count(NewTracker(total))
            /\ exitCode' = exitCode
    /\ UNCHANGED <<skip_existing, total, i, parser, loc, result, child, target, pipe,
                   unlink, interruptedAt, reported, summaryDone, attempts, error,
                   sideVars>>

\* for i, input_path in enumerate(video_files, 1)
LoopHead ==
    /\ pc = "loop"
    /\ IF i < total
       THEN /\ i' = i + 1
            /\ attempts' = Append(attempts, i + 1)
            /\ unlink' = "none"
            /\ pc' = "outpath"
       ELSE /\ pc' = "summary"
            /\ UNCHANGED <<i, attempts, unlink>>
    /\ UNCHANGED <<skip_existing, total, tracker, stats, parser, loc, result, child,
                   target, pipe, interruptedAt, reported, summaryDone, exitCode, error,
                   ops, shown, sideVars>>

\* get_output_path: creating the output directory may raise
GetOutputPath ==
    /\ pc = "outpath"
    /\ \E ok \in BOOLEAN :
          IF ok
          THEN pc' = "startfile" /\ ops' = ops \cup {"mkdir"}
          ELSE pc' = "handler" /\ ops' = ops
    /\ UNCHANGED <<skip_existing, total, i, tracker, stats, parser, loc, result, child,
                   target, pipe, unlink, interruptedAt, reported, summaryDone,
                   exitCode, attempts, error, shown, sideVars>>

\* tracker.start_file(i).  The clock of a run is not modelled: the timestamp
\* stored stands for "file i's start", the elapsed time is drawn in Complete.
StartFile ==
    /\ pc = "startfile"
    /\ tracker' = start_file(tracker, i, i)
    /\ pc' = "skipcheck"
    /\ UNCHANGED <<skip_existing, total, i, stats, parser, loc, result, child, target,
                   pipe, unlink, interruptedAt, reported, summaryDone, exitCode,
                   attempts, error, ops, shown, sideVars>>

---------------------------------------------------------------------------
(* VideoConverter.convert_video.  Its parser, its locals and its end of  *)
(* the pipe live in the call's frame and are gone when the call returns *)
(* or is unwound.                                                       *)

\* convert_video returns res: its frame is dropped
Return(res) ==
    /\ result' = res
    /\ parser' = NewParser
    /\ loc' = NewLocals
    /\ pipe' = <<>>
    /\ pc' = "complete"

\* convert_video without its skip test
SkipCheck_NoSkip ==
    /\ pc = "skipcheck"
    /\ pc' = "spawn"
    /\ UNCHANGED <<skip_existing, total, i, tracker, stats, parser, loc, result, child,
                   target, pipe, unlink, interruptedAt, reported, summaryDone,
                   exitCode, attempts, error, ops, shown, sideVars>>

\* the skip test at the top of convert_video
SkipCheck ==
    /\ pc = "skipcheck"
    /\ IF skip_existing /\ target[i] # "absent"
       THEN Return(<<TRUE, "skipped">>)
       ELSE /\ pc' = "spawn"
            /\ UNCHANGED <<result, parser, loc, pipe>>
    /\ UNCHANGED <<skip_existing, total, i, tracker, stats, child, target, unlink,
                   interruptedAt, reported, summaryDone, exitCode, attempts, error,
                   ops, shown, sideVars>>

\* input size, command line, FFmpegProgressParser(), subprocess.Popen(...);
\* Popen may raise, which the except clause of convert_video turns into "error"
Spawn ==
    /\ pc = "spawn"
    /\ \E ok \in BOOLEAN :
          IF ok
          THEN /\ child' = [child EXCEPT ![i] = "running"]
               /\ ops' = ops \cup {"spawn"}
               /\ parser' = NewParser
               /\ loc' = NewLocals
               /\ pipe' = <<>>
               /\ result' = result
               /\ pc' = "read"
          ELSE /\ Return(<<FALSE, "error">>)
               /\ UNCHANGED <<child, ops>>
    /\ UNCHANGED <<skip_existing, total, i, tracker, stats, target, unlink,
                   interruptedAt, reported, summaryDone, exitCode, attempts, error,
                   shown, sideVars>>

\* one pass of the monitor loop on a line read from the child's stderr.
\* due: whether a second has passed since last_update (always so at first,
\* last_update being 0).  hdue: whether 3 seconds have passed since
\* last_header_update (always so at first): the header is then redrawn from
\* the tracker.
ReadLine ==
    /\ pc = "read"
    /\ pipe # <<>>
    /\ \E due, hdue \in BOOLEAN :
          LET line == Head(pipe)
              p1 == parse_progress(parse_duration(parser, line), line)
              percent == get_progress_percent(p1)
              update == (loc.last_update = 0 \/ due) /\ percent # None
                           /\ percent # loc.last_percent
              redraw == loc.last_header_update = 0 \/ hdue
              t1 == IF update THEN update_file_progress(tracker, percent) ELSE tracker
          IN  /\ parser' = p1
              /\ tracker' = t1
              /\ loc' = [last_update |-> IF update THEN 1 ELSE loc.last_update,
                         last_percent |-> IF update THEN percent ELSE loc.last_percent,
                         last_header_update |-> IF redraw THEN 1 ELSE loc.last_header_update]
              /\ shown' = IF redraw THEN get_processed_count(t1) ELSE shown
    /\ pipe' = Tail(pipe)
    /\ UNCHANGED <<pc, skip_existing, total, i, stats, result, child, target, unlink,
                   interruptedAt, reported, summaryDone, exitCode, attempts, error,
                   ops, sideVars>>

\* a monitor loop that ends as soon as the child is seen to have exited
ReadEOF_Early ==
    /\ pc = "read"
    /\ child[i] \in {"exit0", "exitfail"}
    /\ pc' = "exitcode"
    /\ UNCHANGED <<skip_existing, total, i, tracker, stats, parser, loc, result, child,
                   target, pipe, unlink, interruptedAt, reported, summaryDone,
                   exitCode, attempts, error, ops, shown, sideVars>>

\* readline returns '' at end of stream and poll() reports the exit: the loop
\* ends and process.wait() returns at once
ReadEOF ==
    /\ pc = "read"
    /\ pipe = <<>>
    /\ child[i] \in {"exit0", "exitfail"}
    /\ pc' = "exitcode"
    /\ UNCHANGED <<skip_existing, total, i, tracker, stats, parser, loc, result, child,
                   target, pipe, unlink, interruptedAt, reported, summaryDone,
                   exitCode, attempts, error, ops, shown, sideVars>>

\* reading a line raises (text=True decodes the child's bytes): the except
\* clause of convert_video returns "error"; the child is neither waited for
\* nor killed
ReadError ==
    /\ pc = "read"
    /\ pipe # <<>>
    /\ Return(<<FALSE, "error">>)
    /\ UNCHANGED <<skip_existing, total, i, tracker, stats, child, target, unlink,
                   interruptedAt, reported, summaryDone, exitCode, attempts, error,
                   ops, shown, sideVars>>

\* the cleanup of a failed conversion: the output is unlinked if it exists;
\* deleted tells whether the unlink succeeds (its failure is swallowed)
\* a cleanup that leaves the output of a failed conversion in place
Cleanup_Keep(tg, k, deleted) == tg

Cleanup(tg, k, deleted) ==
    IF tg[k] # "absent" /\ deleted THEN [tg EXCEPT ![k] = "absent"] ELSE tg

\* the return code decides: success, or cleanup and "failed"
ExitCode ==
    /\ pc = "exitcode"
    /\ IF child[i] = "exit0"
       THEN /\ Return(<<TRUE, "success">>)
            /\ UNCHANGED <<target, unlink, ops>>
       ELSE /\ Return(<<FALSE, "failed">>)
            /\ \E deleted \in BOOLEAN :
                  /\ target' = Cleanup(target, i, deleted)
                  /\ ops' = IF target[i] # "absent" /\ deleted
                            THEN ops \cup {"unlink"} ELSE ops
                  /\ unlink' = IF target[i] = "absent" THEN "none"
                                ELSE IF deleted THEN "removed" ELSE "failed"
    /\ UNCHANGED <<skip_existing, total, i, tracker, stats, child, interruptedAt,
                   reported, summaryDone, exitCode, attempts, error, shown, sideVars>>

---------------------------------------------------------------------------
(* The encoder child processes *)

\* the current child writes a progress line to its stderr pipe
ChildWrite(k) ==
    /\ child[k] = "running"
    /\ k = i
    /\ pc = "read"
    /\ Len(pipe) < PipeCap
    /\ \E line \in EncoderLines : pipe' = Append(pipe, line)
    /\ UNCHANGED <<pc, skip_existing, total, i, tracker, stats, parser, loc, result,
                   child, target, unlink, interruptedAt, reported, summaryDone,
                   exitCode, attempts, error, ops, shown, sideVars>>

\* the child opens its output file (-y: an existing file is truncated)
ChildOpenOutput(k) ==
    /\ child[k] = "running"
    /\ target[k] \in {"absent", "old"}
    /\ target' = [target EXCEPT ![k] = "partial"]
    /\ UNCHANGED <<pc, skip_existing, total, i, tracker, stats, parser, loc, result,
                   child, pipe, unlink, interruptedAt, reported, summaryDone, exitCode,
                   attempts, error, ops, shown, sideVars>>

\* the child finishes its output and exits with code 0
ChildExit0(k) ==
    /\ child[k] = "running"
    /\ target[k] = "partial"
    /\ target' = [target EXCEPT ![k] = "complete"]
    /\ child' = [child EXCEPT ![k] = "exit0"]
    /\ UNCHANGED <<pc, skip_existing, total, i, tracker, stats, parser, loc, result,
                   pipe, unlink, interruptedAt, reported, summaryDone, exitCode,
                   attempts, error, ops, shown, sideVars>>

\* the child exits with a nonzero code, whatever it has written so far
ChildFail(k) ==
    /\ child[k] = "running"
    /\ child' = [child EXCEPT ![k] = "exitfail"]
    /\ UNCHANGED <<pc, skip_existing, total, i, tracker, stats, parser, loc, result,
                   target, pipe, unlink, interruptedAt, reported, summaryDone,
                   exitCode, attempts, error, ops, shown, sideVars>>

---------------------------------------------------------------------------
(* The batch loop after convert_video, the summary, interruption *)

\* file sizes for tracking and tracker.complete_file(...)
Complete ==
    /\ pc = "complete"
    /\ \E input_size \in InSizes, size \in OutSizes, d \in Durations :
          LET output_size == IF result[1] /\ result[2] # "skipped" THEN size ELSE 0
          IN  tracker' = complete_file(tracker, result[1], result[2] = "skipped",
                                       input_size, output_size, d)
    /\ pc' = "stats"
    /\ UNCHANGED <<skip_existing, total, i, stats, parser, loc, result, child, target,
                   pipe, unlink, interruptedAt, reported, summaryDone, exitCode,
                   attempts, error, ops, shown, sideVars>>

\* the statistics update of the batch loop
UpdateStats(s, success, result_type, k) ==
    IF result_type = "skipped" THEN [s EXCEPT !.skipped = @ + 1]
    ELSE IF success THEN [s EXCEPT !.success = @ + 1]
    ELSE [s EXCEPT !.failed = @ + 1, !.failed_files = Append(@, k)]

Stats ==
    /\ pc = "stats"
    /\ stats' = UpdateStats(stats, result[1], result[2], i)
    /\ pc' = "header"
    /\ UNCHANGED <<skip_existing, total, i, tracker, parser, loc, result, child,
                   target, pipe, unlink, interruptedAt, reported, summaryDone,
                   exitCode, attempts, error, ops, shown, sideVars>>

\* update_status_header(tracker) after each file: reads the tracker only
Header ==
    /\ pc = "header"
    /\ pc' = "loop"
    /\ shown' = get_processed_count(tracker)
    /\ UNCHANGED <<skip_existing, total, i, tracker, stats, parser, loc, result, child,
                   target, pipe, unlink, interruptedAt, reported, summaryDone,
                   exitCode, attempts, error, ops, sideVars>>

\* an except clause that counts the failure and leaves the loop
HandleException_Break ==
    /\ pc = "handler"
    /\ stats' = [stats EXCEPT !.failed = @ + 1, !.failed_files = Append(@, i)]
    /\ \E d \in Durations : tracker' = complete_file(tracker, FALSE, FALSE, 0, 0, d)
    /\ pc' = "summary"
    /\ UNCHANGED <<skip_existing, total, i, parser, loc, result, child, target, pipe,
                   unlink, interruptedAt, reported, summaryDone, exitCode, attempts,
                   error, ops, shown, sideVars>>

\* except Exception in the batch loop: the file counts as failed and the loop
\* goes on
HandleException ==
    /\ pc = "handler"
    /\ stats' = [stats EXCEPT !.failed = @ + 1, !.failed_files = Append(@, i)]
    /\ \E d \in Durations : tracker' = complete_file(tracker, FALSE, FALSE, 0, 0, d)
    /\ pc' = "loop"
    /\ UNCHANGED <<skip_existing, total, i, parser, loc, result, child, target, pipe,
                   unlink, interruptedAt, reported, summaryDone, exitCode, attempts,
                   error, ops, shown, sideVars>>

\* main() that ends with status 0 whatever the stats say
MainStatus_Zero(s) == 0

\* the status main() ends with, given the stats convert_all returned
MainStatus(s) == IF s.failed > 0 THEN 1 ELSE 0

\* the final summary; convert_all returns stats and main() ends
Summary ==
    /\ pc = "summary"
    /\ summaryDone' = TRUE
    /\ Exit(MainStatus(stats))
    /\ UNCHANGED <<skip_existing, total, i, tracker, stats, parser, loc, result, child,
                   target, pipe, unlink, interruptedAt, reported, attempts, error, ops,
                   shown, sideVars>>

\* KeyboardInterrupt inside the try block of the batch loop (convert_video
\* lets it pass, its frame is unwound): "Processed: i-1/total" is printed and
\* the loop is left
InterruptCaught ==
    /\ interruptedAt = "none"
    /\ pc \in TryPcs
    /\ interruptedAt' = pc
    /\ reported' = i - 1
    /\ pc' = "summary"
    /\ parser' = NewParser
    /\ loc' = NewLocals
    /\ pipe' = <<>>
    /\ UNCHANGED <<skip_existing, total, i, tracker, stats, result, child, target,
                   unlink, summaryDone, exitCode, attempts, error, ops, shown,
                   sideVars>>

\* KeyboardInterrupt anywhere else in convert_all: main() prints "Goodbye!"
\* and exits with status 1
InterruptUncaught ==
    /\ interruptedAt = "none"
    /\ pc \in OuterPcs
    /\ interruptedAt' = pc
    /\ Exit(1)
    /\ UNCHANGED <<skip_existing, total, i, tracker, stats, parser, loc, result, child,
                   target, pipe, unlink, reported, summaryDone, attempts, error, ops,
                   shown, sideVars>>

\* the steps of the program and of its children
RunStep ==
    \/ MainStart
    \/ CheckDependencies
    \/ SourceCheck
    \/ Scan
    \/ LoopHead
    \/ GetOutputPath
    \/ StartFile
    \/ SkipCheck
    \/ Spawn
    \/ ReadLine
    \/ ReadEOF
    \/ ReadError
    \/ ExitCode
    \/ Complete
    \/ Stats
    \/ Header
    \/ HandleException
    \/ Summary
    \/ \E k \in Files : ChildWrite(k)
    \/ \E k \in Files : ChildOpenOutput(k)
    \/ \E k \in Files : ChildExit0(k)
    \/ \E k \in Files : ChildFail(k)

Next ==
    \/ RunStep
    \/ InterruptCaught
    \/ InterruptUncaught

Spec == Init /\ [][Next]_vars

\* the steps convert_video takes itself; the thread running it is never
\* descheduled for good, so they are taken once they stay possible
ConvertStep == SkipCheck \/ Spawn \/ ReadLine \/ ReadEOF \/ ReadError \/ ExitCode

FairSpec == Spec /\ WF_vars(ConvertStep)

---------------------------------------------------------------------------
(* The parser on its own: every sequence of up to MaxLines lines, each fed *)
(* to parse_duration and then to parse_progress as the monitor loop does.  *)

ParserInit ==
    /\ pc = "parser"
    /\ skip_existing = TRUE
    /\ total = 0
    /\ i = 0
    /\ tracker = NewTracker(0)
    /\ stats = NewStats(0)
    /\ parser = NewParser
    /\ loc = NewLocals
    /\ result = NoResult
    /\ child = [k \in Files |-> "none"]
    /\ target = [k \in Files |-> "absent"]
    /\ pipe = <<>>
    /\ unlink = "none"
    /\ interruptedAt = "none"
    /\ reported = None
    /\ summaryDone = FALSE
    /\ exitCode = None
    /\ attempts = <<>>
    /\ error = "none"
    /\ ops = {}
    /\ shown = None
    /\ SideIdle

ObserveLine ==
    /\ pc = "parser"
    /\ Len(observed) < MaxLines
    /\ \E line \in AllLines :
          /\ parser' = parse_progress(parse_duration(parser, line), line)
          /\ observed' = Append(observed, line)
    /\ UNCHANGED <<pc, tracker, runFrame, now, history, infile, outfile, tree, sweep>>

ParserNext == ObserveLine

ParserSpec == ParserInit /\ [][ParserNext]_vars

---------------------------------------------------------------------------
(* TrackerSpec: EnhancedProgressTracker called in any order *)

\* the number of complete_file calls explored
MaxCompletions == 3

Percents == {0, 50, 100}
TrackerInSizes == {0, 1000}
TrackerOutSizes == {600, 1500}

\* the tracker of a run of n files after its first k files were skipped, the
\* j-th of them having taken j seconds; and the clock at that moment
RECURSIVE Prefill(_, _)
Prefill(n, k) ==
    IF k = 0
    THEN [t |-> NewTracker(n), time |-> 0]
    ELSE LET p == Prefill(n, k - 1)
         IN  [t |-> complete_file(start_file(p.t, k, p.time), TRUE, TRUE, 0, 0, k),
              time |-> p.time + k]

\* a fresh tracker, or one whose history is one short of its capacity
TrackerInit ==
    /\ pc = "tracker"
    /\ \E k \in {0, HistoryCap - 1} :
          LET p == Prefill(k + MaxCompletions, k)
          IN  /\ tracker = p.t
              /\ now = p.time
              /\ history = [j \in 1..k |-> j]
    /\ skip_existing = TRUE
    /\ total = 0
    /\ i = 0
    /\ stats = NewStats(0)
    /\ parser = NewParser
    /\ loc = NewLocals
    /\ result = NoResult
    /\ child = [k \in Files |-> "none"]
    /\ target = [k \in Files |-> "absent"]
    /\ pipe = <<>>
    /\ unlink = "none"
    /\ interruptedAt = "none"
    /\ reported = None
    /\ summaryDone = FALSE
    /\ exitCode = None
    /\ attempts = <<>>
    /\ error = "none"
    /\ ops = {}
    /\ shown = None
    /\ observed = <<>>
    /\ infile = NoFile
    /\ outfile = NoPath
    /\ tree = {}
    /\ sweep = NoSweep

\* tracker.start_file(index), for the next file of the batch
TrackerStart ==
    /\ pc = "tracker"
    /\ tracker' = start_file(tracker, get_processed_count(tracker) + 1, now)
    /\ UNCHANGED <<pc, parser, runFrame, sideVars>>

\* tracker.update_file_progress(percent)
TrackerProgress ==
    /\ pc = "tracker"
    /\ \E percent \in Percents : tracker' = update_file_progress(tracker, percent)
    /\ UNCHANGED <<pc, parser, runFrame, sideVars>>

\* tracker.complete_file(success, skipped, input_size, output_size), called
\* dt seconds after the previous call
TrackerComplete ==
    /\ pc = "tracker"
    /\ get_processed_count(tracker) < tracker.total_files
    /\ \E dt \in Durations, success, skipped \in BOOLEAN,
          input_size \in TrackerInSizes, output_size \in TrackerOutSizes :
          LET elapsed == (now + dt) - tracker.current_file_start
          IN  /\ now' = now + dt
              /\ tracker' = complete_file(tracker, success, skipped, input_size,
                                           output_size, elapsed)
              /\ history' = Append(history, IF tracker.current_file_start = None
                                             THEN None ELSE elapsed)
    /\ UNCHANGED <<pc, parser, runFrame, observed, infile, outfile, tree, sweep>>

TrackerNext == TrackerStart \/ TrackerProgress \/ TrackerComplete

TrackerSpec == TrackerInit /\ [][TrackerNext]_vars

---------------------------------------------------------------------------
(* PathSpec: get_output_path applied to one discovered file *)

\* the longest file name explored, in tokens
MaxNameLen == 4

\* file names are sequences of these pieces; only "." contains a dot
Tokens == {"video", "clip", "_optimized", ".", "mp4", "MP4", "mkv"}
Dirs == {<<>>, <<"sub">>}

\* str.lower() on a piece
LowerToken(tok) == IF tok = "MP4" THEN "mp4" ELSE tok
Lower(name) == [n \in 1..Len(name) |-> LowerToken(name[n])]

\* the index of the last "." of a name, 0 if it has none (str.rfind)
RECURSIVE RFindDot(_, _)
RFindDot(name, n) ==
    IF n = 0 THEN 0 ELSE IF name[n] = "." THEN n ELSE RFindDot(name, n - 1)

\* PurePath.suffix and PurePath.stem: the suffix starts at the last dot unless
\* that dot begins or ends the name
HasSuffix(name) ==
    LET d == RFindDot(name, Len(name)) IN d > 1 /\ d < Len(name)
Suffix(name) ==
    IF HasSuffix(name) THEN SubSeq(name, RFindDot(name, Len(name)), Len(name)) ELSE <<>>
Stem(name) ==
    IF HasSuffix(name) THEN SubSeq(name, 1, RFindDot(name, Len(name)) - 1) ELSE name

Mp4Suffix == <<".", "mp4">>
supported_formats == {<<".", "mp4">>, <<".", "mkv">>}

RECURSIVE NamesOfLen(_)
NamesOfLen(n) ==
    IF n = 0 THEN {<<>>}
    ELSE {Append(s, tok) : s \in NamesOfLen(n - 1), tok \in Tokens}
Names == UNION {NamesOfLen(n) : n \in 1..MaxNameLen}

\* find_video_files keeps the files whose lowered suffix is supported; a file
\* is its directory below the source directory and its name
VideoFiles ==
    [dir : Dirs, name : {nm \in Names : Lower(Suffix(nm)) \in supported_formats}]

\* get_output_path that compares the suffix as written
get_output_path_CaseSensitive(input_path) ==
    LET stem == Stem(input_path.name)
        output_name == IF Suffix(input_path.name) = Mp4Suffix
                       THEN stem \o <<"_optimized", ".", "mp4">>
                       ELSE stem \o <<".", "mp4">>
    IN  [root |-> "output_dir", dir |-> input_path.dir, name |-> output_name]

\* rel_path keeps the directory below the source directory and the name
get_output_path(input_path) ==
    LET stem == Stem(input_path.name)
        output_name == IF Lower(Suffix(input_path.name)) = Mp4Suffix
                       THEN stem \o <<"_optimized", ".", "mp4">>
                       ELSE stem \o <<".", "mp4">>
    IN  [root |-> "output_dir", dir |-> input_path.dir, name |-> output_name]

PathInit ==
    /\ pc = "path"
    /\ infile \in VideoFiles
    /\ outfile = NoPath
    /\ skip_existing = TRUE
    /\ total = 0
    /\ i = 0
    /\ tracker = NewTracker(0)
    /\ stats = NewStats(0)
    /\ parser = NewParser
    /\ loc = NewLocals
    /\ result = NoResult
    /\ child = [k \in Files |-> "none"]
    /\ target = [k \in Files |-> "absent"]
    /\ pipe = <<>>
    /\ unlink = "none"
    /\ interruptedAt = "none"
    /\ reported = None
    /\ summaryDone = FALSE
    /\ exitCode = None
    /\ attempts = <<>>
    /\ error = "none"
    /\ ops = {}
    /\ shown = None
    /\ observed = <<>>
    /\ now = 0
    /\ history = <<>>
    /\ tree = {}
    /\ sweep = NoSweep

\* output_path = self.get_output_path(input_path), the directory being created
ComputeOutputPath ==
    /\ pc = "path"
    /\ outfile = NoPath
    /\ outfile' = get_output_path(infile)
    /\ UNCHANGED <<pc, tracker, parser, runFrame, observed, now, history, infile, tree, sweep>>

PathNext == ComputeOutputPath

PathSpec == PathInit /\ [][PathNext]_vars

---------------------------------------------------------------------------
(* RerunSpec: the converter run repeatedly over one source directory with  *)
(* the default settings: skip-existing on, output below <source>/converted *)

\* the number of runs explored
MaxRuns == 2

\* the videos the source directory may hold before the first run
SourceFiles ==
    {[dir |-> <<>>, name |-> <<"video", ".", "mp4">>],
     [dir |-> <<>>, name |-> <<"clip", ".", "mkv">>],
     [dir |-> <<"sub">>, name |-> <<"video", ".", "MP4">>]}

\* the output path of a file as a path below the source directory, the output
\* directory being source_dir / "converted"
DefaultOutput(input_path) ==
    LET o == get_output_path(input_path)
    IN  [dir |-> <<"converted">> \o o.dir, name |-> o.name]

\* os.walk(source_dir) visits every directory below the source directory and
\* keeps the files whose lowered suffix is supported
find_video_files(files) ==
    {f \in files : Lower(Suffix(f.name)) \in supported_formats}

RerunInit ==
    /\ pc = "rescan"
    /\ tree \in (SUBSET SourceFiles) \ {{}}
    /\ sweep = [run |-> 1, todo |-> {}, spawned |-> {}, failed |-> FALSE,
                clean |-> FALSE]
    /\ skip_existing = TRUE
    /\ total = 0
    /\ i = 0
    /\ tracker = NewTracker(0)
    /\ stats = NewStats(0)
    /\ parser = NewParser
    /\ loc = NewLocals
    /\ result = NoResult
    /\ child = [k \in Files |-> "none"]
    /\ target = [k \in Files |-> "absent"]
    /\ pipe = <<>>
    /\ unlink = "none"
    /\ interruptedAt = "none"
    /\ reported = None
    /\ summaryDone = FALSE
    /\ exitCode = None
    /\ attempts = <<>>
    /\ error = "none"
    /\ ops = {}
    /\ shown = None
    /\ observed = <<>>
    /\ now = 0
    /\ history = <<>>
    /\ infile = NoFile
    /\ outfile = NoPath

\* video_files = self.find_video_files(), at the start of a run
RerunScan ==
    /\ pc = "rescan"
    /\ sweep' = [sweep EXCEPT !.todo = find_video_files(tree)]
    /\ pc' = "reloop"
    /\ UNCHANGED <<tracker, parser, runFrame, observed, now, history, infile, outfile,
                   tree>>

\* a discovered file whose output exists is skipped.  The files are handled
\* in sorted order; here the order is left open.
RerunSkip ==
    /\ pc = "reloop"
    /\ \E f \in sweep.todo :
          /\ DefaultOutput(f) \in tree
          /\ sweep' = [sweep EXCEPT !.todo = @ \ {f}]
    /\ UNCHANGED <<pc, tracker, parser, runFrame, observed, now, history, infile,
                   outfile, tree>>

\* a discovered file whose output does not exist gets an encoder, which
\* leaves the output behind if it exits with code 0
RerunConvert ==
    /\ pc = "reloop"
    /\ \E f \in sweep.todo, ok \in BOOLEAN :
          /\ DefaultOutput(f) \notin tree
          /\ sweep' = [sweep EXCEPT !.todo = @ \ {f}, !.spawned = @ \cup {f},
                                    !.failed = @ \/ ~ok]
          /\ tree' = IF ok THEN tree \cup {DefaultOutput(f)} ELSE tree
    /\ UNCHANGED <<pc, tracker, parser, runFrame, observed, now, history, infile,
                   outfile>>

\* the run ends; the user starts the next one over the same directory
RerunAgain ==
    /\ pc = "reloop"
    /\ sweep.todo = {}
    /\ sweep.run < MaxRuns
    /\ sweep' = [sweep EXCEPT !.run = @ + 1, !.clean = ~sweep.failed,
                              !.spawned = {}, !.failed = FALSE]
    /\ pc' = "rescan"
    /\ UNCHANGED <<tracker, parser, runFrame, observed, now, history, infile, outfile,
                   tree>>

RerunNext == RerunScan \/ RerunSkip \/ RerunConvert \/ RerunAgain

RerunSpec == RerunInit /\ [][RerunNext]_vars

---------------------------------------------------------------------------
(* Properties *)

Processed == get_processed_count(tracker)
Counted == stats.success + stats.failed + stats.skipped
Running == {k \in Files : child[k] = "running"}
Ended == pc = "exited"
\* the batch loop has been entered
BatchStarted == attempts # <<>>
\* a step of the main thread away from position p, other than an interruption
StepFrom(p) == pc = p /\ pc' # p /\ interruptedAt' = interruptedAt

\* C1: a run interrupted after some files have been processed ends with a
\* nonzero termination status, whatever the outcomes of the processed files.
C1_InterruptedRunExitsNonzero ==
    (Ended /\ interruptedAt # "none" /\ Processed > 0) => exitCode # 0

\* C2: when an interruption arrives while the batch loop handles file i (at
\* any position of the loop body), no encoder is spawned for a later file,
\* the run goes on to the final summary, and the number reported as processed
\* is the number of outcomes counted (success + failed + skipped).
C2_InterruptStopsAndReportsCount ==
    interruptedAt \in TryPcs =>
        /\ \A k \in Files : k > i => child[k] = "none"
        /\ pc \in {"summary", "exited"}
        /\ Ended => summaryDone
        /\ reported = Counted

\* C3: no run ends with an encoder child it started still alive; a child
\* running when the interruption arrives is terminated before the run exits.
C3_NoChildAliveAtExit ==
    Ended => Running = {}

\* C4: absent interruption a file's failure never aborts the batch: the files
\* are taken up one by one in sorted order, each exactly once, and a run whose
\* batch has started ends only through the final summary, after every
\* discovered file was taken up; until then the run can always take a step.
C4_FailureNeverAbortsBatch ==
    /\ attempts = [k \in 1..Len(attempts) |-> k]
    /\ Len(attempts) <= total
    /\ (interruptedAt = "none" /\ BatchStarted /\ pc \in {"summary", "exited"}) =>
          /\ Len(attempts) = total
          /\ Ended => summaryDone
    /\ (interruptedAt = "none" /\ BatchStarted /\ ~Ended) => ENABLED RunStep

\* a run without interruption has ended after a failure of its first file and
\* a later file that was still handled
C4_Witness ==
    /\ Ended /\ summaryDone /\ interruptedAt = "none"
    /\ total = 2 /\ attempts = <<1, 2>>
    /\ stats.failed_files # <<>> /\ Head(stats.failed_files) = 1
    /\ stats.success = 1

\* C5: the processed count success + failed + skipped never exceeds the number
\* of discovered files, and equals it when the batch ends without
\* interruption, also when an exception was caught for a file.
C5_ProcessedCount ==
    /\ Processed <= total
    /\ Counted <= total
    /\ (interruptedAt = "none" /\ BatchStarted /\ pc \in {"summary", "exited"}) =>
          Processed = total /\ Counted = total

\* the batch has ended without interruption with every file counted, the first
\* of them on the caught-exception path (it never got a start time)
C5_Witness ==
    /\ Ended /\ interruptedAt = "none"
    /\ total = 2 /\ Processed = 2
    /\ tracker.failed_files >= 1
    /\ Len(tracker.file_times) < Processed

\* C6: the percent is unset until both a duration and a position have been
\* observed; once both have been (the duration being nonzero) it is set and is
\* floor(100 * position / duration) clamped to 100, in 0..100, also for
\* position 00:00:00.00.
DurationObserved == \E n \in 1..Len(observed) : observed[n].dur # None
PositionObserved == \E n \in 1..Len(observed) : observed[n].pos # None
C6_PercentSetOnceBothObserved ==
    LET percent == get_progress_percent(parser)
        d == parser.duration_seconds
        c == parser.current_seconds
    IN  /\ ~(DurationObserved /\ PositionObserved) => percent = None
        /\ (DurationObserved /\ PositionObserved /\ d # 0) =>
              /\ percent # None
              /\ percent \in 0..100
              /\ percent = Min(100, (100 * c) \div d)

\* C7: the duration is set at most once per file: once a duration marker has
\* been observed a later one leaves the stored duration unchanged, while every
\* later position marker overwrites the position.
C7_FirstDurationWins ==
    [][ /\ DurationObserved => parser'.duration_seconds = parser.duration_seconds
        /\ \A line \in AllLines :
              (observed' = Append(observed, line) /\ line.pos # None) =>
                  parser'.current_seconds = line.pos ]_vars

\* C8: with skip-existing enabled and the target present when the file is
\* handled, no encoder is spawned for the file, the target is left as it was,
\* and the outcome is counted as skipped: skipped + 1, success and failed
\* unchanged, in the tracker and in the stats.
C8_SkipExisting ==
    /\ [](result[2] = "skipped" /\ pc \in {"complete", "stats", "header"} =>
             child[i] = "none" /\ target[i] = "old")
    /\ [][ /\ (StepFrom("skipcheck") /\ skip_existing /\ target[i] # "absent") =>
                 /\ pc' = "complete"
                 /\ result' = <<TRUE, "skipped">>
                 /\ child' = child
                 /\ target' = target
           /\ (StepFrom("complete") /\ result[2] = "skipped") =>
                 /\ tracker'.skipped_files = tracker.skipped_files + 1
                 /\ tracker'.completed_files = tracker.completed_files
                 /\ tracker'.failed_files = tracker.failed_files
           /\ (StepFrom("stats") /\ result[2] = "skipped") =>
                 /\ stats'.skipped = stats.skipped + 1
                 /\ stats'.success = stats.success
                 /\ stats'.failed = stats.failed
                 /\ stats'.failed_files = stats.failed_files ]_vars

\* a file with an existing target has been skipped and counted
C8_Witness ==
    /\ pc = "header" /\ result = <<TRUE, "skipped">>
    /\ skip_existing /\ target[i] = "old" /\ child[i] = "none"
    /\ stats.skipped = 1 /\ tracker.skipped_files = 1

\* C9: when the encoder exits with a nonzero code the outcome is Failed; a
\* target that exists then is removed unless its deletion fails, and neither
\* an absent target nor a failed deletion raises.
C9_FailureCleanup ==
    [][ (StepFrom("exitcode") /\ child[i] = "exitfail") =>
           /\ pc' = "complete"
           /\ result' = <<FALSE, "failed">>
           /\ \A k \in Files \ {i} : target'[k] = target[k]
           /\ target[i] = "absent" => (target'[i] = "absent" /\ unlink' = "none")
           /\ target[i] # "absent" => unlink' \in {"removed", "failed"}
           /\ unlink' = "removed" => target'[i] = "absent"
           /\ unlink' = "failed" => target'[i] = target[i] ]_vars

\* a failed conversion's partial output has been removed
C9_Witness ==
    /\ pc = "complete" /\ result = <<FALSE, "failed">>
    /\ child[i] = "exitfail" /\ unlink = "removed" /\ target[i] = "absent"

\* C10: at most one encoder child started by the run is alive at any time:
\* the next file's encoder is never launched before the previous one exited.
C10_OneChildAtATime ==
    Cardinality(Running) <= 1

\* C11: a run that is not cut short by an interruption outside the batch loop
\* ends with status 0 exactly when it had no run-level error (dependency or
\* source directory missing) and no file failed; so zero files, all succeeded
\* and any mix of succeeded and skipped give 0, and one failed file gives 1.
C11_ExitStatus ==
    Ended /\ interruptedAt \notin OuterPcs =>
        (exitCode = 0 <=> (error = "none" /\ stats.failed = 0))

\* a run of two files, one converted and one skipped, has ended with status 0
C11_Witness ==
    /\ Ended
    /\ interruptedAt = "none"
    /\ exitCode = 0
    /\ stats.success > 0
    /\ stats.skipped > 0

\* C12: once the dependency probe has failed the run is over with a nonzero
\* status and the dependency error, and it has done no file operation: no
\* scan, no output directory, no encoder spawned for a file, no deletion, no
\* file taken up, no output file touched.
C12_DependencyFailureNoFileOps ==
    error = "FFmpeg not available" =>
        /\ Ended
        /\ exitCode = 1
        /\ ops = {}
        /\ attempts = <<>>
        /\ ~summaryDone
        /\ \A k \in Files : child[k] = "none" /\ target[k] \in {"absent", "old"}

\* the probe has failed and the run has ended
C12_Witness ==
    /\ error = "FFmpeg not available"
    /\ pc = "exited"
    /\ interruptedAt = "none"

\* C13: the cumulative input and output byte totals never decrease, and a step
\* changes either of them only if it is the completion of a file whose outcome
\* is Success; completions of failed or skipped files, by the loop body or by
\* its exception handler, leave both unchanged.
C13_BytesOnlyOnSuccess ==
    [][ /\ tracker'.total_input_size >= tracker.total_input_size
        /\ tracker'.total_output_size >= tracker.total_output_size
        /\ (\/ tracker'.total_input_size # tracker.total_input_size
            \/ tracker'.total_output_size # tracker.total_output_size)
              => StepFrom("complete") /\ result = <<TRUE, "success">>
        /\ (StepFrom("complete") /\ result # <<TRUE, "success">>) \/ StepFrom("handler")
              => /\ tracker'.total_input_size = tracker.total_input_size
                 /\ tracker'.total_output_size = tracker.total_output_size ]_vars

\* a converted file has added its bytes and a failed file has been completed
C13_Witness ==
    /\ tracker.completed_files > 0
    /\ tracker.failed_files > 0
    /\ tracker.total_input_size > 0
    /\ tracker.total_output_size > 0

\* the last n entries of a sequence, all of it if it is shorter
LastN(seq, n) == SubSeq(seq, Len(seq) - Min(n, Len(seq)) + 1, Len(seq))
\* the elapsed times the completions so far had to record, in completion order
Recorded == SelectSeq(history, LAMBDA e : e # None)

\* C14 as stated: after any sequence of start_file / complete_file calls the
\* history is the durations of the most recent completions, one entry for each
\* of the last 15 completions, in completion order.
C14_HistoryIsRecentCompletions ==
    pc = "tracker" =>
        /\ Len(tracker.file_times) <= HistoryCap
        /\ tracker.file_times = LastN(history, HistoryCap)

\* C14 amended: the history never holds more than 15 entries and is, in
\* completion order, the elapsed times since the latest start_file of the last
\* 15 completions made after start_file was first called (oldest evicted
\* first); a completion made before any start_file records nothing.
C14_HistoryBounded ==
    pc = "tracker" =>
        /\ Len(tracker.file_times) <= HistoryCap
        /\ tracker.file_times = LastN(Recorded, HistoryCap)
        /\ tracker.current_file_start = None => Recorded = <<>>
        /\ tracker.current_file_start # None =>
              \A n \in 1..Len(history) :
                 history[n] = None => \A m \in 1..n : history[m] = None

\* more than 15 durations were recorded: the oldest have been evicted
C14_Witness ==
    /\ pc = "tracker"
    /\ Len(Recorded) > HistoryCap
    /\ Len(tracker.file_times) = HistoryCap
    /\ tracker.file_times[1] # Recorded[1]

\* C15 as stated: "no data" exactly while no successful conversion has been
\* recorded; once one has, fewer output than input bytes give "saved" with a
\* positive percentage and more give "used" with a negative one.
C15_SavingsSignBySuccess ==
    pc = "tracker" =>
        LET s == get_space_savings(tracker)
        IN  /\ tracker.completed_files = 0 => s.kind = "no data yet"
            /\ tracker.completed_files > 0 =>
                  /\ tracker.total_output_size < tracker.total_input_size
                        => s.kind = "saved" /\ s.tenths > 0
                  /\ tracker.total_output_size > tracker.total_input_size
                        => s.kind = "used" /\ s.tenths < 0

\* C15 amended: "no data" exactly while the cumulative input bytes are zero
\* (so also while no success is recorded); with input bytes recorded, fewer
\* output bytes give "saved" with a positive percentage (1000 and 600: +40.0%)
\* and more give "used" with a negative one (1000 and 1500: -50.0%), the size
\* printed being that of the absolute difference.
C15_SavingsSignByInput ==
    pc = "tracker" =>
        LET s == get_space_savings(tracker)
            in == tracker.total_input_size
            out == tracker.total_output_size
        IN  /\ s.kind = "no data yet" <=> in = 0
            /\ tracker.completed_files = 0 => s.kind = "no data yet"
            /\ in > 0 /\ out < in => s.kind = "saved" /\ s.tenths > 0
            /\ in > 0 /\ out > in => s.kind = "used" /\ s.tenths < 0
            /\ in > 0 => s.size = format_size(Abs(in - out)) /\ s.size.tenths >= 0
            /\ in = 1000 /\ out = 600 => s.tenths = 400
            /\ in = 1000 /\ out = 1500 => s.tenths = -500

\* 1000 bytes in and 1500 out: "used 500.0B (-50.0%)"
C15_Witness ==
    /\ pc = "tracker"
    /\ tracker.total_input_size = 1000
    /\ tracker.total_output_size = 1500
    /\ get_space_savings(tracker) =
          [kind |-> "used", size |-> [unit |-> "B", tenths |-> 5000], tenths |-> -500]

\* C16: the output path of a discovered file keeps the file's directory below
\* the scan root, has the suffix .mp4, and its stem is the input stem followed
\* by _optimized exactly when the input suffix is .mp4 in any letter case, the
\* input stem otherwise: video.mp4 gives video_optimized.mp4, clip.mkv gives
\* clip.mp4.
C16_OutputPath ==
    (pc = "path" /\ outfile # NoPath) =>
        LET in_name == infile.name
            isMp4 == Suffix(in_name) \in {<<".", "mp4">>, <<".", "MP4">>}
        IN  /\ outfile = get_output_path(infile)
            /\ outfile.dir = infile.dir
            /\ Suffix(outfile.name) = <<".", "mp4">>
            /\ isMp4 => Stem(outfile.name) = Stem(in_name) \o <<"_optimized">>
            /\ ~isMp4 => Stem(outfile.name) = Stem(in_name)
            /\ in_name = <<"video", ".", "mp4">>
                  => outfile.name = <<"video", "_optimized", ".", "mp4">>
            /\ in_name = <<"clip", ".", "mkv">> => outfile.name = <<"clip", ".", "mp4">>

\* the path of sub/video.MP4 has been computed
C16_Witness ==
    /\ pc = "path"
    /\ infile = [dir |-> <<"sub">>, name |-> <<"video", ".", "MP4">>]
    /\ outfile = [root |-> "output_dir", dir |-> <<"sub">>,
                  name |-> <<"video", "_optimized", ".", "mp4">>]

\* the tracker of the batch exists
Tracking == pc \in TryPcs \cup {"loop", "handler", "summary"}
Remaining == tracker.total_files - Processed

\* C17 as stated: the ETA is unknown exactly when the history is empty, and
\* otherwise, with files remaining, it is remaining * mean(history) seconds in
\* every state of the run, also while a file is partway through.
C17_EtaIsRemainingTimesMean ==
    Tracking =>
        LET eta == get_eta_formatted(tracker)
        IN  /\ eta.kind = "calculating..." <=> tracker.file_times = <<>>
            /\ (tracker.file_times # <<>> /\ Remaining > 0) =>
                  /\ eta.kind = "time"
                  /\ eta.num * Len(tracker.file_times)
                        = Remaining * Sum(tracker.file_times) * eta.den

\* C17 amended: the ETA is unknown exactly when the history is empty;
\* otherwise it is "complete" when no file remains, and with files remaining
\* it is (remaining - 1 + (100 - p) / 100) * mean(history) seconds, p being the
\* current file's progress percent: remaining * mean(history) while p is 0,
\* less while the file is partway through.
C17_EtaAdjustedForProgress ==
    Tracking =>
        LET eta == get_eta_formatted(tracker)
            p == tracker.current_file_progress
        IN  /\ eta.kind = "calculating..." <=> tracker.file_times = <<>>
            /\ (tracker.file_times # <<>> /\ Remaining <= 0) => eta.kind = "complete"
            /\ (tracker.file_times # <<>> /\ Remaining > 0) =>
                  /\ eta.kind = "time"
                  /\ eta.num * 100 * Len(tracker.file_times)
                        = (100 * Remaining - p) * Sum(tracker.file_times) * eta.den
                  /\ p = 0 => eta.num * Len(tracker.file_times)
                                 = Remaining * Sum(tracker.file_times) * eta.den
                  /\ eta.text = FormatSeconds((100 * Remaining - p) * Sum(tracker.file_times),
                                              100 * Len(tracker.file_times))

\* the second file is halfway through, the first took 2 seconds: "1s"
C17_Witness ==
    /\ pc = "read"
    /\ tracker.file_times = <<2>>
    /\ tracker.current_file_progress = 50
    /\ Remaining > 0
    /\ get_eta_formatted(tracker).text = [form |-> "s", a |-> Remaining * 2 - 1, b |-> 0]

\* C18: when the exit code is evaluated no line of the child is left unread
\* and the child has exited; the monitor loop goes on to the exit code only
\* from an empty pipe with the child's exit seen; a line leaves the pipe only
\* by being fed to the parser (or with the frame, when reading raises or the
\* user interrupts); and once the child has exited, the conversion returns a
\* result unless the user interrupts it.
C18_ReadLoop ==
    /\ [](pc = "exitcode" => pipe = <<>> /\ child[i] \in {"exit0", "exitfail"})
    /\ [][ /\ (pc # "exitcode" /\ pc' = "exitcode") =>
                 /\ pc = "read"
                 /\ pipe = <<>>
                 /\ child[i] \in {"exit0", "exitfail"}
           /\ (pc = "read" /\ Len(pipe') < Len(pipe)) =>
                 \/ /\ pc' = "read"
                    /\ pipe' = Tail(pipe)
                    /\ parser' = parse_progress(parse_duration(parser, Head(pipe)),
                                                Head(pipe))
                 \/ /\ pc' = "complete"
                    /\ result' = <<FALSE, "error">>
                 \/ /\ pc' = "summary"
                    /\ interruptedAt' = "read" ]_vars
    /\ (pc = "read" /\ child[i] \in {"exit0", "exitfail"})
          ~> ((pc = "complete" /\ result # NoResult) \/ interruptedAt # "none")

\* the loop has ended after the child's lines set both parser fields
C18_Witness ==
    /\ pc = "exitcode"
    /\ parser.duration_seconds # None
    /\ parser.current_seconds # None
    /\ child[i] = "exit0"

\* C19: when a file is taken up, every earlier file has been counted in the
\* statistics and the status display has been redrawn since: the display
\* shows all earlier files as processed, also after an attempt that ended in
\* an exception caught by the batch loop.
C19_DisplayRefreshedBeforeNextFile ==
    pc = "outpath" =>
        /\ Counted = i - 1
        /\ Processed = i - 1
        /\ shown = i - 1

\* the outcome counters, the duration history and the byte totals
RunStatistics(t) ==
    <<t.completed_files, t.failed_files, t.skipped_files, t.file_times,
      t.total_input_size, t.total_output_size>>

\* C20: the tracker's outcome counters, duration history and byte totals
\* change only in a step that calls complete_file (the loop body's or the
\* exception handler's); start_file touches only the current-file fields, the
\* monitor loop (progress updates and the header redraw every 3 seconds) only
\* the current file's progress, and the header update after a file nothing.
C20_StatisticsFrame ==
    [][ /\ RunStatistics(tracker') # RunStatistics(tracker)
              => StepFrom("complete") \/ StepFrom("handler")
        /\ tracker' # tracker
              => \/ StepFrom("complete") \/ StepFrom("handler")
                 \/ StepFrom("scan") \/ StepFrom("startfile")
                 \/ pc = "read" /\ pc' = "read"
        /\ (pc = "read" /\ pc' = "read")
              => tracker' = [tracker EXCEPT
                                !.current_file_progress = tracker'.current_file_progress]
        /\ StepFrom("startfile")
              => RunStatistics(tracker') = RunStatistics(tracker)
        /\ StepFrom("header") => tracker' = tracker /\ stats' = stats ]_vars

\* mid-file, after an earlier file: progress was updated and the header redrawn
C20_Witness ==
    /\ pc = "read"
    /\ Processed > 0
    /\ tracker.current_file_progress > 0
    /\ loc.last_header_update # 0
    /\ shown = Processed

\* C21: no other file that can be discovered together with the input file
\* gets the same output path.
C21_OutputPathInjective ==
    (pc = "path" /\ outfile # NoPath) =>
        \A other \in VideoFiles :
           other # infile => get_output_path(other) # outfile

\* C22: in a run that follows a run in which every file succeeded, no encoder
\* is spawned, and no file the converter produced is among the discovered
\* files.
C22_RerunSpawnsNothing ==
    (pc \in {"rescan", "reloop"} /\ sweep.run > 1 /\ sweep.clean) =>
        /\ sweep.spawned = {}
        /\ \A f \in sweep.todo : f.dir = <<>> \/ Head(f.dir) # "converted"

\* the counters convert_all returns agree with the tracker's, and the list of
\* failed files has one entry per counted failure
StatsAgree ==
    /\ stats.success = tracker.completed_files
    /\ stats.failed = tracker.failed_files
    /\ stats.skipped = tracker.skipped_files
    /\ Len(stats.failed_files) = stats.failed
    /\ \A m, n \in 1..Len(stats.failed_files) :
          m # n => stats.failed_files[m] # stats.failed_files[n]

\* C23: when a file is taken up or the loop is left, and when the run has
\* ended with its summary, the returned counters agree with the tracker's and
\* the failed-file list has exactly one entry per failed file, on every path
\* through the batch loop.
C23_StatsAgreeWithTracker ==
    (pc \in {"loop", "summary"} \/ (Ended /\ summaryDone)) => StatsAgree

\* the agreement at the same points of a run the user has not interrupted,
\* the caught-exception path included
StatsAgreeUninterrupted ==
    (interruptedAt = "none" /\ (pc \in {"loop", "summary"} \/ (Ended /\ summaryDone)))
        => StatsAgree

\* C24: once the attempt at a file has ended as failed (nonzero exit or caught
\* exception) or has been cut short by an interruption, no partly written
\* target of that file exists: the target is absent, or is a file left by an
\* encoder that exited with code 0, or is one that was there before the run
\* and that no encoder has opened.
C24_NoPartialOutput ==
    /\ (pc = "complete" /\ ~result[1]) => target[i] # "partial"
    /\ (interruptedAt \in TryPcs /\ i \in Files) => target[i] # "partial"

=============================================================================
